---- MODULE Spec2Model ----
(***************************************************************************)
(* Request lifecycle of the community bot: HelpService and                 *)
(* CommunicationService (create request, join, offer help, auto-close),    *)
(* against the request store, the Slack gateway and the one-shot scheduler.*)
(* Each read and each write of the request row is a step of its own, so    *)
(* invocations on the same request interleave between them.                *)
(***************************************************************************)
EXTENDS Naturals, FiniteSets, Sequences, Bags, TLC

\* ------------------------------------------------------------------ bounds
\* Longest member list users.list answers with.
MaxMembers == 2

\* How many requests are created when only the scheduling is looked at.
MaxCreates == 2

\* How often start_match is called for one pair of users.
MaxStarts == 2

\* How often the close handler of one request may be invoked (the scheduler
\* fires once; further invocations are direct calls of the handler).
MaxExpiryRuns == 2

\* ------------------------------------------------------------------ domains
RequestIds == {"r1"}
Users == {"u1", "u2", "u3"}
Requesters == {"u1"}
Kinds == {"help", "communication"}
\* topic and description as given to create_*_request: either may be empty.
Texts == {[topic |-> "t", description |-> "d"],
          [topic |-> "", description |-> "d"],
          [topic |-> "t", description |-> ""]}
OriginChannel == "c0"
Null == "null"
NoRow == [kind |-> "absent"]

VARIABLES
    store,       \* request id -> row of help_requests / communication_requests, or NoRow
    channel,     \* gateway: the session channel of a request (created, archived, members)
    advert,      \* gateway: the advertisement message in the origin channel
    job,         \* scheduler: the one-shot close job of a request
    cron_client, \* whether the service was constructed with a scheduler client
    faults,      \* whether store and gateway calls may fail for reasons outside the model
    cr,          \* create_*_request invocation per request: position, the local channel
                 \* id, and how create_channel, the channel-id update and add_once_job ended
    act,         \* join / offer_help invocation per request and user: position and snapshot
    exp,         \* _close_*_channel invocation per request: position, number of runs
    last,        \* the most recently completed invocation and what it returned
    winners,     \* history: helpers whose offer_help returned success, per request
    claimed,     \* history: a claim was written / had been written at the last close
    lookup,      \* one call of _get_workspace_owner and the invite list built from it
    calls,       \* scheduler: the requests created so far with the job id given to add_once_job
    match        \* CoffeeMatchService: per pair of users the conversation, the start_match
                 \* calls made and waiting for the ice-breaker, and the close jobs

vars == <<store, channel, advert, job, cron_client, faults, cr, act, exp, last, winners, claimed,
          lookup, calls, match>>

\* ------------------------------------------------------------------ store
\* BaseRepository.create: the given fields, every other column NULL.
NewRow(kind, requester, text) ==
    [kind |-> kind, requester_id |-> requester,
     topic |-> text.topic, description |-> text.description,
     channel_id |-> OriginChannel, status |-> "open",
     helper_id |-> Null, closed_at |-> Null,
     session_channel_id |-> Null, message_ts |-> Null]

\* BaseRepository.update(id, data): overwrites exactly the named columns.
RepoUpdate(row, data) ==
    [f \in DOMAIN row |-> IF f \in DOMAIN data THEN data[f] ELSE row[f]]

\* Variant: the claim writes the status and forgets the helper.
ClaimFields_status_only(helper) == [status |-> "in_progress"]

ClaimFields_takes_over(helper) ==
    [status |-> "in_progress", helper_id |-> helper, requester_id |-> helper]

\* offer_help step 4: the columns a claim writes.
ClaimFields(helper) == [status |-> "in_progress", helper_id |-> helper]

CloseFields_clears_channel == [status |-> "closed", session_channel_id |-> Null]

\* _close_help_channel / _close_communication_channel: the columns a close writes.
CloseFields == [status |-> "closed"]

\* ------------------------------------------------------------------ results
Result(ok, msg) == [success |-> ok, message |-> msg]
NoResult == Result(FALSE, "none")

outer_except_reraise == Result(FALSE, "raised")

\* offer_help / join_communication_channel, "except Exception": the error result.
outer_except == Result(FALSE, "error")

\* Variant: the messages of in_progress and closed are exchanged.
StatusText_swapped(status) ==
    CASE status = "in_progress" -> "closed"
      [] status = "resolved" -> "resolved"
      [] status = "closed" -> "already_helping"
      [] OTHER -> "not_active"

\* offer_help step 2: the message for a request that is not open.
\*   already_helping : "Bu yardim istegine zaten biri yardim ediyor."
\*   resolved        : "Bu yardim istegi cozuldu."
\*   closed          : "Bu yardim istegi kapatildi."
\*   not_active      : "Bu yardim istegi artik aktif degil."
StatusText(status) ==
    CASE status = "in_progress" -> "already_helping"
      [] status = "resolved" -> "resolved"
      [] status = "closed" -> "closed"
      [] OTHER -> "not_active"

\* Variant: the check that the helper is not the requester is missing.
offer_help_check_no_self(row, helper) ==
    IF row = NoRow THEN Result(FALSE, "not_found")
    ELSE IF row.status # "open" THEN Result(FALSE, StatusText(row.status))
    ELSE NoResult

\* offer_help steps 1-3 on the row read: the rejection, or NoResult to go on.
offer_help_check(row, helper) ==
    IF row = NoRow THEN Result(FALSE, "not_found")
    ELSE IF row.status # "open" THEN Result(FALSE, StatusText(row.status))
    ELSE IF row.requester_id = helper THEN Result(FALSE, "own_request")
    ELSE NoResult

\* Variant: the status check is missing.
join_check_no_status(row) ==
    IF row = NoRow THEN Result(FALSE, "not_found")
    ELSE IF row.session_channel_id = Null THEN Result(FALSE, "no_channel")
    ELSE NoResult

join_check_no_channel_check(row) ==
    IF row = NoRow THEN Result(FALSE, "not_found")
    ELSE IF row.status = "closed" THEN Result(FALSE, "channel_closed")
    ELSE NoResult

\* join_communication_channel steps 1-3 on the row read.
join_check(row) ==
    IF row = NoRow THEN Result(FALSE, "not_found")
    ELSE IF row.status = "closed" THEN Result(FALSE, "channel_closed")
    ELSE IF row.session_channel_id = Null THEN Result(FALSE, "no_channel")
    ELSE NoResult

\* Variant: the except branch looks for another error code.
IsAlreadyInChannel_other_code(err) == err \in {"already_in_team"}

\* join_communication_channel: the except branch's test on the gateway's error.
IsAlreadyInChannel(err) == err \in {"already_in_channel", "already_in team"}

join_result_lenient(err) ==
    IF err = "ok" \/ IsAlreadyInChannel(err) \/ err = "is_archived"
    THEN Result(TRUE, "joined") ELSE Result(FALSE, "retry")

\* join_communication_channel step 5: the result for what invite/post raised.
join_result(err) ==
    IF err = "ok" THEN Result(TRUE, "joined")
    ELSE IF IsAlreadyInChannel(err) THEN Result(TRUE, "already_joined")
    ELSE Result(FALSE, "retry")

\* ------------------------------------------------------------------ gateway
NoChannel == [created |-> FALSE, archived |-> FALSE, members |-> {}]

\* conversations.invite of one user: what the platform answers in this state.
InviteAnswer(ch, user) ==
    IF ~ch.created THEN "channel_not_found"
    ELSE IF ch.archived THEN "is_archived"
    ELSE IF user \in ch.members THEN "already_in_channel"
    ELSE "ok"

\* conversations.archive: whether the platform archives the channel in this state.
ArchiveAnswer(ch) == ch.created /\ ~ch.archived

\* The outcomes a call may have: "ok", and with faults "fail".
Outcomes == IF faults THEN {"ok", "fail"} ELSE {"ok"}

\* ------------------------------------------------------------------ records
Idle == [pc |-> "idle", req |-> NoRow]
NoCall == [op |-> "none", id |-> "none", user |-> "none", pre |-> "none",
           result |-> NoResult, wrote |-> FALSE, invited |-> FALSE, gw |-> "none"]

Call(op, r, user, pre, result, wrote, invited, gw) ==
    [op |-> op, id |-> r, user |-> user, pre |-> pre, result |-> result,
     wrote |-> wrote, invited |-> invited, gw |-> gw]

Status(r) == IF store[r] = NoRow THEN "absent" ELSE store[r].status

\* The request id is known outside create_*_request once the advertisement with
\* its buttons is posted, or once the call has returned the id.
Known(r) == advert[r].posted \/ cr[r].pc = "done"

\* ------------------------------------------------------------------ directory
\* users.list: one member of the answer, and the answer (or the call raising).
Members == [id : Users, is_owner : BOOLEAN, is_admin : BOOLEAN]

SeqsUpTo(S, n) == UNION {[1..k -> S] : k \in 0..n}

Responses == [outcome : {"ok", "not_ok", "raises"}, members : SeqsUpTo(Members, MaxMembers)]

RECURSIVE first_flagged(_, _)
\* "for member in members: if member.get(flag): return member.get('id')"
first_flagged(members, flag) ==
    IF members = <<>> THEN Null
    ELSE IF Head(members)[flag] THEN Head(members).id
    ELSE first_flagged(Tail(members), flag)

get_workspace_owner_single_pass(response) ==
    IF response.outcome # "ok" THEN Null
    ELSE LET flagged == SelectSeq(response.members, LAMBDA m : m.is_owner \/ m.is_admin)
         IN  IF flagged = <<>> THEN Null ELSE Head(flagged).id

\* _get_workspace_owner: the owner loop, then the admin loop, None otherwise and
\* when list_users raises.
get_workspace_owner(response) ==
    IF response.outcome = "raises" THEN Null
    ELSE IF response.outcome = "ok"
    THEN LET owner_id == first_flagged(response.members, "is_owner")
         IN  IF owner_id # Null THEN owner_id
             ELSE first_flagged(response.members, "is_admin")
    ELSE Null

\* The answers of users.list the request flow is run with.
Directories ==
    {[outcome |-> "ok", members |-> <<[id |-> "u2", is_owner |-> TRUE, is_admin |-> TRUE]>>],
     [outcome |-> "ok", members |-> <<[id |-> "u3", is_owner |-> FALSE, is_admin |-> TRUE],
                                      [id |-> "u1", is_owner |-> TRUE, is_admin |-> TRUE]>>],
     [outcome |-> "ok", members |-> <<[id |-> "u3", is_owner |-> FALSE, is_admin |-> TRUE]>>],
     [outcome |-> "raises", members |-> <<>>]}

NoLookup == [state |-> "none"]

\* ------------------------------------------------------------------ job ids
\* Ids and job ids as strings of characters.
IdChars == {"c", "h", "_"}
Ids == [{1} -> IdChars] \cup [{1, 2} -> IdChars]

JobPrefix(kind) ==
    IF kind = "help" THEN <<"c", "l", "o", "s", "e", "_", "h", "e", "l", "p", "_", "c", "h", "a", "n", "n", "e", "l", "_">>
    ELSE <<"c", "l", "o", "s", "e", "_", "c", "o", "m", "m", "u", "n", "i", "c", "a", "t", "i", "o", "n", "_", "c", "h", "a", "n", "n", "e", "l", "_">>

job_id_no_kind(kind, id) == <<"c", "l", "o", "s", "e", "_", "c", "h", "a", "n", "n", "e", "l", "_">> \o id

\* job_id = f"close_help_channel_{help_id}" / f"close_communication_channel_{communication_id}"
job_id(kind, id) == JobPrefix(kind) \o id

\* The id column of request r as it enters the job id.
RowId(r) == <<r>>

\* add_once_job called for a request: one more copy of its record in the bag.
Scheduled(kind, id) == SetToBag({[kind |-> kind, id |-> id, job_id |-> job_id(kind, id)]})

NoCalls == EmptyBag

\* ------------------------------------------------------------------ coffee match
\* The pairs start_match is called with; conversations.open answers with the
\* same conversation for the same users, so the pair stands for its id.
Pairs == {{"u1", "u2"}, {"u1", "u3"}}

NoMatch ==
    [conv |-> [p \in Pairs |-> "none"], close_called |-> [p \in Pairs |-> FALSE],
     started |-> [p \in Pairs |-> 0], inflight |-> [p \in Pairs |-> 0],
     pending |-> [p \in Pairs |-> 0], dup |-> [p \in Pairs |-> FALSE]]

InitCommon ==
    /\ match = NoMatch
    /\ store = [r \in RequestIds |-> NoRow]
    /\ channel = [r \in RequestIds |-> NoChannel]
    /\ advert = [r \in RequestIds |-> [tried |-> FALSE, posted |-> FALSE, updated |-> FALSE]]
    /\ job = [r \in RequestIds |-> "none"]
    /\ cron_client \in BOOLEAN
    /\ cr = [r \in RequestIds |-> [pc |-> "idle", chan |-> Null, created |-> "none",
                                     save |-> "none", sched |-> "none"]]
    /\ act = [r \in RequestIds |-> [u \in Users |-> Idle]]
    /\ exp = [r \in RequestIds |-> [pc |-> "idle", runs |-> 0, pre |-> "none"]]
    /\ last = NoCall
    /\ winners = [r \in RequestIds |-> {}]
    /\ claimed = [r \in RequestIds |-> [written |-> FALSE, at_close |-> FALSE]]

Init == InitCommon /\ faults = FALSE /\ lookup = NoLookup /\ calls = NoCalls

InitFaults == InitCommon /\ faults = TRUE /\ lookup = NoLookup /\ calls = NoCalls

\* ------------------------------------------------------------------ create
\* create_*_request, "owner + requester": the users invited into the new channel.
invite_users_no_dedup(requester, owner) ==
    <<requester>> \o (IF owner # Null THEN <<owner>> ELSE <<>>)

invite_users(requester, owner) ==
    <<requester>> \o (IF owner # Null /\ owner # requester THEN <<owner>> ELSE <<>>)

Range(seq) == {seq[i] : i \in DOMAIN seq}

ProvisionOutcomes ==
    IF faults THEN {"ok", "lookup_fails", "create_fails", "invite_fails", "welcome_fails"}
    ELSE {"ok"}

create_persist_after_channel(r, kind, requester, text) ==
    /\ cr[r].pc = "idle"
    /\ store[r] = NoRow
    /\ \E o \in Outcomes :
        IF o = "ok"
        THEN /\ store' = [store EXCEPT ![r] = NewRow(kind, requester, text)]
             /\ cr' = [cr EXCEPT ![r].pc = "provision"]
             /\ UNCHANGED <<last, channel>>
        ELSE /\ channel' = [channel EXCEPT ![r] =
                    [created |-> TRUE, archived |-> FALSE, members |-> {requester}]]
             /\ cr' = [cr EXCEPT ![r].pc = "raised"]
             /\ last' = Call("create", r, requester, "absent",
                             Result(FALSE, "raised"), FALSE, FALSE, "none")
             /\ UNCHANGED store
    /\ UNCHANGED <<advert, job, cron_client, faults, act, exp, winners, claimed, lookup, calls, match>>

\* Step 1: the row is persisted with status open; a store failure is raised.
create_persist(r, kind, requester, text) ==
    /\ cr[r].pc = "idle"
    /\ store[r] = NoRow
    /\ \E o \in Outcomes :
        IF o = "ok"
        THEN /\ store' = [store EXCEPT ![r] = NewRow(kind, requester, text)]
             /\ cr' = [cr EXCEPT ![r].pc = "provision"]
             /\ UNCHANGED last
        ELSE /\ cr' = [cr EXCEPT ![r].pc = "raised"]
             /\ last' = Call("create", r, requester, "absent",
                             Result(FALSE, "raised"), FALSE, FALSE, "none")
             /\ UNCHANGED store
    /\ UNCHANGED <<channel, advert, job, cron_client, faults, act, exp, winners, claimed, lookup, calls, match>>

\* Where create_*_request goes after steps 2-3: the requester lookup is outside
\* the channel block and raises; everything from create_channel to the welcome
\* message is inside it, and its except clears the local channel id.
provision_next_no_channel_block(o) ==
    CASE o \in {"lookup_fails", "create_fails", "welcome_fails"} -> "raised"
      [] OTHER -> "save_channel"

provision_next_skip_save(o) ==
    CASE o = "lookup_fails" -> "raised"
      [] o \in {"create_fails", "welcome_fails"} -> "advertise"
      [] OTHER -> "schedule"

provision_next_schedules_anyway(o) ==
    CASE o = "lookup_fails" -> "raised"
      [] o = "create_fails" -> "schedule"
      [] o = "welcome_fails" -> "advertise"
      [] OTHER -> "save_channel"

provision_next(o) ==
    CASE o = "lookup_fails" -> "raised"
      [] o \in {"create_fails", "welcome_fails"} -> "advertise"
      [] OTHER -> "save_channel"

\* Steps 2-3: requester lookup, channel creation, invitation, welcome message.
create_channel(r) ==
    /\ cr[r].pc = "provision"
    /\ \E o \in ProvisionOutcomes, response \in Directories :
        LET requester == store[r].requester_id
            owner == get_workspace_owner(response)
            invited == IF o = "invite_fails" THEN {}
                       ELSE Range(invite_users(requester, owner))
            next == provision_next(o)
        IN  /\ channel' = [channel EXCEPT ![r] =
                   IF o \in {"lookup_fails", "create_fails"} THEN @
                   ELSE [created |-> TRUE, archived |-> FALSE, members |-> invited]]
            /\ cr' = [cr EXCEPT ![r].pc = next,
                                ![r].chan = IF next \in {"save_channel", "schedule"}
                                            THEN "ch" ELSE Null,
                                ![r].created = CASE o = "lookup_fails" -> @
                                                 [] o = "create_fails" -> "failed"
                                                 [] OTHER -> "ok"]
            /\ last' = IF next = "raised"
                       THEN Call("create", r, requester, "open",
                                 Result(FALSE, "raised"), TRUE, FALSE, "none")
                       ELSE last
    /\ UNCHANGED <<store, advert, job, cron_client, faults, act, exp, winners, claimed, lookup, calls, match>>

save_next_ignores_failure(o) == "schedule"

\* Where create_*_request goes after the update of the channel id: the
\* scheduling follows in the same try, a failure lands in its except.
save_next(o) == IF o = "ok" THEN "schedule" ELSE "advertise"

\* The channel id is written to the row; a failure lands in the channel block's except.
create_save_channel(r) ==
    /\ cr[r].pc = "save_channel"
    /\ \E o \in Outcomes :
        /\ store' = [store EXCEPT ![r] =
               IF o = "ok" THEN RepoUpdate(store[r], [session_channel_id |-> cr[r].chan])
               ELSE @]
        /\ cr' = [cr EXCEPT ![r].pc = save_next(o),
                            ![r].chan = IF save_next(o) = "schedule" THEN @ ELSE Null,
                            ![r].save = IF o = "ok" THEN "ok" ELSE "failed"]
    /\ UNCHANGED <<channel, advert, job, cron_client, faults, act, exp, last, winners, claimed, lookup, calls, match>>

\* Where create_*_request goes after add_once_job: its own try/except logs a
\* failure and the flow goes on to the advertisement.
schedule_next_raises(o) == IF o = "ok" THEN "advertise" ELSE "raised"

schedule_next(o) == "advertise"

\* The one-shot close job is armed, when there is a scheduler client.
create_schedule(r) ==
    /\ cr[r].pc = "schedule"
    /\ \E o \in Outcomes :
        LET armed == cron_client /\ o = "ok"
            next == IF cron_client THEN schedule_next(o) ELSE "advertise"
        IN  /\ job' = [job EXCEPT ![r] = IF armed THEN "armed" ELSE @]
            /\ cr' = [cr EXCEPT ![r].pc = next,
                                ![r].sched = IF ~cron_client THEN "skipped"
                                             ELSE IF o = "ok" THEN "armed" ELSE "failed"]
            /\ last' = IF next = "raised"
                       THEN Call("create", r, store[r].requester_id, "open",
                                 Result(FALSE, "raised"), TRUE, FALSE, "none")
                       ELSE last
            /\ calls' = IF cron_client THEN calls (+) Scheduled(store[r].kind, RowId(r))
                        ELSE calls
    /\ UNCHANGED <<store, channel, advert, cron_client, faults, act, exp, winners, claimed, lookup, match>>

\* The post raises, or answers without "ok" (then no reference is saved).
AdvertiseOutcomes == IF faults THEN {"ok", "fail", "not_ok"} ELSE {"ok"}

\* Step 5: the advertisement with its buttons is posted into the origin channel.
create_advertise(r) ==
    /\ cr[r].pc = "advertise"
    /\ \E o \in AdvertiseOutcomes :
        IF o = "ok"
        THEN /\ advert' = [advert EXCEPT ![r].tried = TRUE, ![r].posted = TRUE]
             /\ cr' = [cr EXCEPT ![r].pc = "save_ts"]
             /\ UNCHANGED last
        ELSE IF o = "not_ok"
        THEN /\ advert' = [advert EXCEPT ![r].tried = TRUE]
             /\ cr' = [cr EXCEPT ![r].pc = "done"]
             /\ last' = Call("create", r, store[r].requester_id, "open",
                             Result(TRUE, "id"), TRUE, FALSE, "none")
        ELSE /\ advert' = [advert EXCEPT ![r].tried = TRUE]
             /\ cr' = [cr EXCEPT ![r].pc = "raised"]
             /\ last' = Call("create", r, store[r].requester_id, "open",
                             Result(FALSE, "raised"), TRUE, FALSE, "none")
    /\ UNCHANGED <<store, channel, job, cron_client, faults, act, exp, winners, claimed, lookup, calls, match>>

\* Step 6: the message reference is written to the row and the id is returned.
create_save_ts(r) ==
    /\ cr[r].pc = "save_ts"
    /\ \E o \in Outcomes :
        IF o = "ok"
        THEN /\ store' = [store EXCEPT ![r] = RepoUpdate(store[r], [message_ts |-> "ts"])]
             /\ cr' = [cr EXCEPT ![r].pc = "done"]
             /\ last' = Call("create", r, store[r].requester_id, "open",
                             Result(TRUE, "id"), TRUE, FALSE, "none")
        ELSE /\ cr' = [cr EXCEPT ![r].pc = "raised"]
             /\ last' = Call("create", r, store[r].requester_id, "open",
                             Result(FALSE, "raised"), TRUE, FALSE, "none")
             /\ UNCHANGED store
    /\ UNCHANGED <<channel, advert, job, cron_client, faults, act, exp, winners, claimed, lookup, calls, match>>

\* ------------------------------------------------------------------ offer_help
\* Steps 1-3: the row is read and checked; the call goes on with this snapshot.
offer_help_get(r, h) ==
    /\ act[r][h].pc = "idle"
    /\ \/ store[r] = NoRow
       \/ Known(r) /\ store[r].kind = "help"
    /\ \E o \in Outcomes :
        LET res == IF o = "ok" THEN offer_help_check(store[r], h)
                   ELSE outer_except
        IN  IF res = NoResult
            THEN /\ act' = [act EXCEPT ![r][h] = [pc |-> "update", req |-> store[r]]]
                 /\ UNCHANGED last
            ELSE /\ last' = Call("offer", r, h, Status(r), res, FALSE, FALSE, "none")
                 /\ UNCHANGED act
    /\ UNCHANGED <<store, channel, advert, job, cron_client, faults, cr, exp, winners, claimed, lookup, calls, match>>

\* Step 4: status and helper_id are written.
offer_help_update(r, h) ==
    /\ act[r][h].pc = "update"
    /\ \E o \in Outcomes :
        IF o = "ok"
        THEN /\ store' = [store EXCEPT ![r] = RepoUpdate(store[r], ClaimFields(h))]
             /\ claimed' = [claimed EXCEPT ![r].written = TRUE]
             /\ act' = [act EXCEPT ![r][h].pc = "notify"]
             /\ UNCHANGED last
        ELSE /\ act' = [act EXCEPT ![r][h] = Idle]
             /\ last' = Call("offer", r, h, act[r][h].req.status,
                             outer_except, FALSE, FALSE, "none")
             /\ UNCHANGED <<store, claimed>>
    /\ UNCHANGED <<channel, advert, job, cron_client, faults, cr, exp, winners, lookup, calls, match>>

NotifyOutcomes ==
    IF faults THEN {"ok", "lookup_fails", "invite_fails", "dm_fails", "update_fails"}
    ELSE {"ok"}

offer_help_notify_rollback(r, h) ==
    /\ act[r][h].pc = "notify"
    /\ \E o \in NotifyOutcomes :
        LET req == act[r][h].req
            answer == IF req.session_channel_id = Null \/ o = "lookup_fails" THEN "none"
                      ELSE IF o = "invite_fails" THEN "error"
                      ELSE InviteAnswer(channel[r], h)
            done == o \notin {"lookup_fails", "dm_fails"}
            res == IF done THEN Result(TRUE, "connected") ELSE outer_except
        IN  /\ channel' = [channel EXCEPT ![r].members =
                              IF answer = "ok" THEN @ \cup {h} ELSE @]
            /\ advert' = [advert EXCEPT ![r].updated =
                              IF done /\ o # "update_fails" /\ req.message_ts # Null
                              THEN TRUE ELSE @]
            /\ winners' = [winners EXCEPT ![r] = IF done THEN @ \cup {h} ELSE @]
            /\ last' = Call("offer", r, h, req.status, res, TRUE, answer = "ok", answer)
            /\ store' = [store EXCEPT ![r] = IF done THEN @ ELSE
                            RepoUpdate(@, [status |-> "open", helper_id |-> Null])]
    /\ act' = [act EXCEPT ![r][h] = Idle]
    /\ UNCHANGED <<job, cron_client, faults, cr, exp, claimed, lookup, calls, match>>

\* Steps 5-10: the helper is invited into the help channel, the direct
\* conversation is opened, both are notified, the advertisement is updated.
offer_help_notify(r, h) ==
    /\ act[r][h].pc = "notify"
    /\ \E o \in NotifyOutcomes :
        LET req == act[r][h].req
            answer == IF req.session_channel_id = Null \/ o = "lookup_fails" THEN "none"
                      ELSE IF o = "invite_fails" THEN "error"
                      ELSE InviteAnswer(channel[r], h)
            done == o \notin {"lookup_fails", "dm_fails"}
            res == IF done THEN Result(TRUE, "connected") ELSE outer_except
        IN  /\ channel' = [channel EXCEPT ![r].members =
                              IF answer = "ok" THEN @ \cup {h} ELSE @]
            /\ advert' = [advert EXCEPT ![r].updated =
                              IF done /\ o # "update_fails" /\ req.message_ts # Null
                              THEN TRUE ELSE @]
            /\ winners' = [winners EXCEPT ![r] = IF done THEN @ \cup {h} ELSE @]
            /\ last' = Call("offer", r, h, req.status, res, TRUE, answer = "ok", answer)
    /\ act' = [act EXCEPT ![r][h] = Idle]
    /\ UNCHANGED <<store, job, cron_client, faults, cr, exp, claimed, lookup, calls, match>>

\* ------------------------------------------------------------------ join
\* Steps 1-3: the row is read and checked.
join_get(r, u) ==
    /\ act[r][u].pc = "idle"
    /\ \/ store[r] = NoRow
       \/ Known(r) /\ store[r].kind = "communication"
    /\ \E o \in Outcomes :
        LET res == IF o = "ok" THEN join_check(store[r]) ELSE outer_except
        IN  IF res = NoResult
            THEN /\ act' = [act EXCEPT ![r][u] = [pc |-> "invite", req |-> store[r]]]
                 /\ UNCHANGED last
            ELSE /\ last' = Call("join", r, u, Status(r), res, FALSE, FALSE, "none")
                 /\ UNCHANGED act
    /\ UNCHANGED <<store, channel, advert, job, cron_client, faults, cr, exp, winners, claimed, lookup, calls, match>>

JoinOutcomes ==
    IF faults THEN {"ok", "lookup_fails", "invite_fails", "post_fails"} ELSE {"ok"}

\* Steps 4-5: the user is invited into the channel and the notice is posted.
join_invite(r, u) ==
    /\ act[r][u].pc = "invite"
    /\ \E o \in JoinOutcomes :
        LET answer == IF o = "lookup_fails" THEN "none"
                      ELSE IF o = "invite_fails" THEN "error"
                      ELSE InviteAnswer(channel[r], u)
            err == IF answer = "ok" /\ o = "post_fails" THEN "error" ELSE answer
            res == IF o = "lookup_fails" THEN outer_except ELSE join_result(err)
        IN  /\ channel' = [channel EXCEPT ![r].members =
                              IF answer = "ok" THEN @ \cup {u} ELSE @]
            /\ last' = Call("join", r, u, act[r][u].req.status, res, FALSE,
                            answer = "ok", answer)
    /\ act' = [act EXCEPT ![r][u] = Idle]
    /\ UNCHANGED <<store, advert, job, cron_client, faults, cr, exp, winners, claimed, lookup, calls, match>>

\* ------------------------------------------------------------------ close
\* The update raises, or the notice cannot be posted into the archived channel
\* (its own try/except; with the channel archived this is the usual case).
CloseOutcomes == IF faults THEN {"ok", "fail", "notice_fails"} ELSE {"ok", "notice_fails"}

close_result_propagates(o) ==
    IF o \in {"ok", "notice_fails"} THEN Result(TRUE, "returned") ELSE Result(FALSE, "raised")

\* What the handler gives back to the scheduler: both try/except blocks swallow.
close_result(o) == Result(TRUE, "returned")

close_channel_archive_open_only(r) ==
    /\ job[r] # "none"
    /\ Status(r) = "open"
    /\ exp[r].pc = "idle"
    /\ exp[r].runs < MaxExpiryRuns
    /\ job' = [job EXCEPT ![r] = "fired"]
    /\ \E o \in Outcomes :
        LET success == o = "ok" /\ ArchiveAnswer(channel[r])
        IN  IF success
            THEN /\ channel' = [channel EXCEPT ![r].archived = TRUE]
                 /\ exp' = [exp EXCEPT ![r] = [pc |-> "update", runs |-> @.runs,
                                               pre |-> Status(r)]]
                 /\ UNCHANGED last
            ELSE /\ exp' = [exp EXCEPT ![r].runs = @ + 1]
                 /\ last' = Call("expire", r, "none", Status(r),
                                 close_result(o), FALSE, FALSE, "archive_failed")
                 /\ UNCHANGED channel
    /\ UNCHANGED <<store, advert, cron_client, faults, cr, act, winners, claimed, lookup, calls, match>>

\* The handler starts (the scheduler fires the job, or it is called again) and
\* archives the channel; without success nothing is written.
close_channel_archive(r) ==
    /\ job[r] # "none"
    /\ exp[r].pc = "idle"
    /\ exp[r].runs < MaxExpiryRuns
    /\ job' = [job EXCEPT ![r] = "fired"]
    /\ \E o \in Outcomes :
        LET success == o = "ok" /\ ArchiveAnswer(channel[r])
        IN  IF success
            THEN /\ channel' = [channel EXCEPT ![r].archived = TRUE]
                 /\ exp' = [exp EXCEPT ![r] = [pc |-> "update", runs |-> @.runs,
                                               pre |-> Status(r)]]
                 /\ UNCHANGED last
            ELSE /\ exp' = [exp EXCEPT ![r].runs = @ + 1]
                 /\ last' = Call("expire", r, "none", Status(r),
                                 close_result(o), FALSE, FALSE, "archive_failed")
                 /\ UNCHANGED channel
    /\ UNCHANGED <<store, advert, cron_client, faults, cr, act, winners, claimed, lookup, calls, match>>

\* After a successful archive the row is marked closed and the notice is posted.
close_channel_update(r) ==
    /\ exp[r].pc = "update"
    /\ \E o \in CloseOutcomes :
        /\ store' = [store EXCEPT ![r] =
                        IF o # "fail" THEN RepoUpdate(store[r], CloseFields) ELSE @]
        /\ claimed' = [claimed EXCEPT ![r].at_close =
                        IF o # "fail" THEN claimed[r].written ELSE @]
        /\ last' = Call("expire", r, "none", exp[r].pre, close_result(o),
                        o # "fail", FALSE, "archived")
    /\ exp' = [exp EXCEPT ![r] = [pc |-> "idle", runs |-> @.runs + 1, pre |-> "none"]]
    /\ UNCHANGED <<channel, advert, job, cron_client, faults, cr, act, winners, lookup, calls, match>>

\* The handler called with a request id that has no row, and the channel of r:
\* it does not load the request; it archives, and its update matches no row.
UnknownIds == {"r0"}

close_channel_absent(id, r) ==
    /\ \E o \in Outcomes :
        LET success == o = "ok" /\ ArchiveAnswer(channel[r])
        IN  /\ channel' = [channel EXCEPT ![r].archived = IF success THEN TRUE ELSE @]
            /\ last' = Call("expire", id, "none", "absent", close_result(o), FALSE, FALSE,
                            IF success THEN "archived" ELSE "archive_failed")
    /\ UNCHANGED <<store, advert, job, cron_client, faults, cr, act, exp, winners, claimed, lookup, calls, match>>

\* A member archives the session channel by hand.
archive_by_member(r) ==
    /\ channel[r].created
    /\ ~channel[r].archived
    /\ channel' = [channel EXCEPT ![r].archived = TRUE]
    /\ UNCHANGED <<store, advert, job, cron_client, faults, cr, act, exp, last, winners, claimed, lookup, calls, match>>

\* ------------------------------------------------------------------ owner lookup alone
\* One call of _get_workspace_owner on an arbitrary answer of users.list, followed
\* by the construction of the invite list for an arbitrary requester.
InitDirectory ==
    /\ InitCommon /\ faults = FALSE /\ calls = NoCalls
    /\ lookup \in [state : {"input"}, response : Responses, requester : Users,
                   owner : {Null}, invited : {<<>>}]

resolve_owner ==
    /\ lookup.state = "input"
    /\ LET owner == get_workspace_owner(lookup.response)
       IN  lookup' = [lookup EXCEPT !.state = "done", !.owner = owner,
                                    !.invited = invite_users(lookup.requester, owner)]
    /\ UNCHANGED <<store, channel, advert, job, cron_client, faults, cr, act, exp, last,
                   winners, claimed, calls, match>>

NextDirectory == resolve_owner

SpecDirectory == InitDirectory /\ [][NextDirectory]_vars

\* ------------------------------------------------------------------ scheduling alone
\* Requests of both kinds are created one after the other; each table hands out
\* an id it has not handed out before, and the job of the request is scheduled.
InitJobIds == InitCommon /\ faults = FALSE /\ cron_client /\ lookup = NoLookup /\ calls = NoCalls

schedule_job(kind, id) ==
    /\ BagCardinality(calls) < MaxCreates
    /\ \A c \in BagToSet(calls) : <<c.kind, c.id>> # <<kind, id>>
    /\ calls' = calls (+) Scheduled(kind, id)
    /\ UNCHANGED <<store, channel, advert, job, cron_client, faults, cr, act, exp, last,
                   winners, claimed, lookup, match>>

NextJobIds == \E kind \in Kinds, id \in Ids : schedule_job(kind, id)

SpecJobIds == InitJobIds /\ [][NextJobIds]_vars

\* ------------------------------------------------------------------ coffee match alone
InitMatch == InitCommon /\ faults = FALSE /\ cron_client /\ lookup = NoLookup /\ calls = NoCalls

\* start_match step 1: the group conversation is opened; the call then waits
\* for the ice-breaker text.
start_match_open(p) ==
    /\ match.started[p] < MaxStarts
    /\ \E o \in {"ok", "fail"} :
        match' = IF o = "ok"
                 THEN [match EXCEPT !.started[p] = @ + 1, !.inflight[p] = @ + 1,
                                    !.conv[p] = "open", !.close_called[p] = FALSE]
                 ELSE [match EXCEPT !.started[p] = @ + 1]
    /\ UNCHANGED <<store, channel, advert, job, cron_client, faults, cr, act, exp, last,
                   winners, claimed, lookup, calls>>

\* add_once_job under a job id that is still pending: the scheduler replaces the
\* job, refuses the call, or holds both.
RescheduleOutcomes == {"replaced", "rejected", "added"}

\* start_match steps 2-4: ice-breaker, post, add_once_job; any failure raises
\* out of the call and skips what follows.
start_match_schedule(p) ==
    /\ match.inflight[p] > 0
    /\ \E o \in {"ok", "ice_fails", "post_fails", "schedule_fails"},
          u \in RescheduleOutcomes :
        match' = IF o # "ok"
                 THEN [match EXCEPT !.inflight[p] = @ - 1]
                 ELSE IF match.pending[p] = 0
                 THEN [match EXCEPT !.inflight[p] = @ - 1, !.pending[p] = 1]
                 ELSE [match EXCEPT !.inflight[p] = @ - 1, !.dup[p] = TRUE,
                                    !.pending[p] = IF u = "added" THEN @ + 1 ELSE @]
    /\ UNCHANGED <<store, channel, advert, job, cron_client, faults, cr, act, exp, last,
                   winners, claimed, lookup, calls>>

\* close_match, run by the scheduler: closing message, then close_conversation;
\* a failing post skips the close, every failure is logged only.
close_match(p) ==
    /\ match.pending[p] > 0
    /\ \E o \in {"ok", "post_fails", "close_fails"} :
        match' = [match EXCEPT !.pending[p] = @ - 1,
                               !.close_called[p] = IF o = "post_fails" THEN @ ELSE TRUE,
                               !.conv[p] = IF o = "ok" THEN "closed" ELSE @]
    /\ UNCHANGED <<store, channel, advert, job, cron_client, faults, cr, act, exp, last,
                   winners, claimed, lookup, calls>>

NextMatch ==
    \E p \in Pairs :
        \/ start_match_open(p)
        \/ start_match_schedule(p)
        \/ close_match(p)

\* A call waiting for the ice-breaker goes on, and the scheduler fires every
\* job it holds.
SpecMatch ==
    /\ InitMatch /\ [][NextMatch]_vars
    /\ \A p \in Pairs : WF_vars(start_match_schedule(p)) /\ WF_vars(close_match(p))

\* ------------------------------------------------------------------ specification
Next ==
    \E r \in RequestIds :
        \/ \E kind \in Kinds, requester \in Requesters, text \in Texts :
               create_persist(r, kind, requester, text)
        \/ create_channel(r)
        \/ create_save_channel(r)
        \/ create_schedule(r)
        \/ create_advertise(r)
        \/ create_save_ts(r)
        \/ \E h \in Users : offer_help_get(r, h)
        \/ \E h \in Users : offer_help_update(r, h)
        \/ \E h \in Users : offer_help_notify(r, h)
        \/ \E u \in Users : join_get(r, u)
        \/ \E u \in Users : join_invite(r, u)
        \/ close_channel_archive(r)
        \/ close_channel_update(r)
        \/ \E id \in UnknownIds : close_channel_absent(id, r)
        \/ archive_by_member(r)

\* Store and gateway answer; failures come only from the state of the channel.
Spec == Init /\ [][Next]_vars

\* Any store or gateway call may also fail.
SpecFaults == InitFaults /\ [][Next]_vars

\* The scheduler fires every job it holds.
SpecFair == Spec /\ \A r \in RequestIds : WF_vars(close_channel_archive(r))

\* ------------------------------------------------------------------ claims
Rows == {r \in RequestIds : store[r] # NoRow}
HelpRows == {r \in Rows : store[r].kind = "help"}
Pending(r) == {u \in Users : act[r][u].pc # "idle"}

\* C1: of the offer_help calls with distinct helper ids on one request, exactly
\* one returns success, and once no call is in flight helper_id is that helper.
C1_ExactlyOneClaimSucceeds ==
    \A r \in HelpRows :
        /\ \A h1, h2 \in winners[r] : h1 = h2
        /\ winners[r] # {} /\ Pending(r) = {} => store[r].helper_id \in winners[r]

\* C2: the persisted status never leaves closed, and never goes from
\* in_progress back to open.
C2_StatusMonotonic ==
    [][\A r \in RequestIds :
          /\ Status(r) = "closed" => Status(r)' = "closed"
          /\ Status(r) = "in_progress" => Status(r)' # "open"]_vars

\* C3: for every request, closed_at is set if and only if the status is closed.
C3_ClosedAtIffClosed ==
    \A r \in Rows : store[r].closed_at # Null <=> store[r].status = "closed"

\* C4: once the close handler has run for a request its status is closed, and a
\* run that finds the request closed writes nothing.
C4_ExpiryIdempotent ==
    /\ \A r \in Rows : exp[r].runs >= 1 /\ exp[r].pc = "idle" => store[r].status = "closed"
    /\ last.op = "expire" /\ last.pre = "closed" => ~last.wrote

\* C5: a join that starts after the close handler closed the communication
\* request is rejected with the channel-closed message, invites nobody and
\* leaves the status closed.
C5_JoinAfterCloseRejected ==
    last.op = "join" /\ last.pre = "closed" =>
        /\ last.result = Result(FALSE, "channel_closed")
        /\ ~last.invited
        /\ Status(last.id) = "closed"

C5_Witness ==
    /\ last.op = "join" /\ last.pre = "closed"
    /\ last.result.message = "channel_closed"
    /\ exp[last.id].runs >= 1
    /\ store[last.id].kind = "communication"

\* C6: a join for which the gateway reports that the user is already in the
\* channel returns success, and no step of a join changes the stored request.
C6_JoinIdempotent ==
    /\ [](last.op = "join" /\ last.gw = "already_in_channel" => last.result.success)
    /\ [][\A r \in RequestIds, u \in Users :
             join_get(r, u) \/ join_invite(r, u) => store' = store]_vars

C6_Witness ==
    /\ last.op = "join" /\ last.gw = "already_in_channel"
    /\ last.user \in channel[last.id].members
    /\ last.result.success
    /\ store[last.id].status = "open"

\* C7: an offer_help by the requester of the request is rejected whatever the
\* status, and never gets to the write of status and helper_id.
C7_OwnRequestRejected ==
    /\ last.op = "offer" /\ last.id \in Rows /\ last.user = store[last.id].requester_id
          => ~last.result.success /\ ~last.wrote
    /\ \A r \in HelpRows : store[r].requester_id \notin Pending(r)

C7_Witness ==
    /\ last.op = "offer" /\ last.id \in Rows /\ last.user = store[last.id].requester_id
    /\ last.pre = "open"
    /\ last.result = Result(FALSE, "own_request")

\* C8: an offer_help that reads a status other than open is rejected with the
\* message of that status and writes nothing.
C8_NotOpenRejected ==
    /\ last.op = "offer" /\ last.pre = "in_progress"
          => last.result = Result(FALSE, "already_helping") /\ ~last.wrote
    /\ last.op = "offer" /\ last.pre = "closed"
          => last.result = Result(FALSE, "closed") /\ ~last.wrote

C8_Witness ==
    /\ last.op = "offer" /\ last.pre = "in_progress"
    /\ winners[last.id] # {}
    /\ last.user \notin winners[last.id] \cup {store[last.id].requester_id}
    /\ last.result.message = "already_helping"

\* C9: once helper_id is set, no step changes it.
C9_HelperImmutable ==
    [][\A r \in RequestIds :
          store[r] # NoRow /\ store[r].helper_id # Null
              => store'[r].helper_id = store[r].helper_id]_vars

\* C10: a help request has a helper_id exactly when it is in progress, or is
\* closed and had been claimed when it was closed.
C10_HelperIffClaimed ==
    \A r \in HelpRows :
        store[r].helper_id # Null <=>
            \/ store[r].status = "in_progress"
            \/ store[r].status = "closed" /\ claimed[r].at_close

C10_Witness ==
    \E r \in HelpRows :
        /\ store[r].status = "closed"
        /\ store[r].helper_id # Null
        /\ claimed[r].at_close

\* C11: when the very first store write fails, the call raises and nothing else
\* has happened: no channel, no invitation, no advertisement, no close job.
C11_CreateFailureNoSideEffect ==
    \A r \in RequestIds :
        store[r] = NoRow =>
            /\ cr[r].pc \in {"idle", "raised"}
            /\ channel[r] = NoChannel
            /\ ~advert[r].tried
            /\ job[r] = "none"

C11_Witness ==
    \E r \in RequestIds :
        /\ store[r] = NoRow /\ cr[r].pc = "raised"
        /\ last = Call("create", r, last.user, "absent", Result(FALSE, "raised"),
                       FALSE, FALSE, "none")

\* C12: once the row is persisted, create_*_request never raises.
C12_CreateReturnsIdOncePersisted ==
    \A r \in Rows : cr[r].pc # "raised"

\* C13: when create_channel fails the row stays persisted with no session
\* channel id, open until somebody claims it, no channel is created later, and
\* the flow goes on to post the advertisement.
C13_ChannelFailureDegrades ==
    \A r \in RequestIds :
        cr[r].created = "failed" =>
            /\ r \in Rows
            /\ store[r].session_channel_id = Null
            /\ store[r].status = "open" \/ claimed[r].written
            /\ ~channel[r].created
            /\ cr[r].pc \in {"advertise", "save_ts", "done", "raised"}
            /\ cr[r].pc # "advertise" => advert[r].tried

C13_Witness ==
    \E r \in Rows :
        /\ cr[r].created = "failed" /\ cr[r].pc = "done"
        /\ advert[r].posted
        /\ store[r].session_channel_id = Null /\ store[r].status = "open"

\* C14: when create_channel succeeded and the write of the channel id did not
\* itself fail, the row carries the channel id once create_*_request has ended.
C14_ChannelIdPersisted ==
    \A r \in Rows :
        cr[r].created = "ok" /\ cr[r].save # "failed" /\ cr[r].pc \in {"done", "raised"}
            => store[r].session_channel_id # Null

C16_ScheduleFailureSwallowed ==
    \A r \in RequestIds :
        cr[r].sched = "failed" =>
            /\ cr[r].pc \in {"advertise", "save_ts", "done", "raised"}
            /\ cr[r].pc # "advertise" => advert[r].tried
            /\ job[r] = "none"
            /\ exp[r] = [pc |-> "idle", runs |-> 0, pre |-> "none"]
            /\ store[r].status = "open" \/ claimed[r].written
            /\ store[r].status # "closed"

C16_Witness ==
    \E r \in Rows :
        /\ cr[r].sched = "failed" /\ cr[r].pc = "done"
        /\ last = Call("create", r, store[r].requester_id, "open", Result(TRUE, "id"),
                       TRUE, FALSE, "none")
        /\ advert[r].posted
        /\ store[r].status = "open"
        /\ channel[r].created /\ ~channel[r].archived

\* C17: a run of the close handler on a request that is not closed, whose
\* channel could not be archived, still leaves the request closed.
C17_ExpiryClosesWhenChannelGone ==
    last.op = "expire" /\ last.pre \in {"open", "in_progress"} /\ last.gw = "archive_failed"
        => Status(last.id) = "closed"

\* C18: the close handler called with a request id that has no row makes no
\* gateway call and writes nothing.
C18_ExpiryAbsentNoop ==
    last.op = "expire" /\ last.pre = "absent" => last.gw = "none" /\ ~last.wrote

\* C19: every run of the close handler, first or repeated, returns normally,
\* whether the archive, the store update or the notice failed.
C19_ExpiryNeverRaises ==
    last.op = "expire" => last.result = Result(TRUE, "returned")

C19_Witness ==
    \E r \in Rows :
        /\ faults
        /\ last.op = "expire" /\ last.id = r
        /\ exp[r].runs >= 2
        /\ last.gw = "archived" /\ ~last.wrote
        /\ store[r].status # "closed"

\* C20: a join whose invitation fails for a cause other than the user already
\* being in the channel is rejected with the retry message and adds nobody, and
\* no step of a join changes the stored request.
C20_JoinInviteFailureRejected ==
    /\ [](last.op = "join" /\ last.gw \in {"error", "is_archived", "channel_not_found"}
             => last.result = Result(FALSE, "retry") /\ ~last.invited)
    /\ [][\A r \in RequestIds, u \in Users :
             join_invite(r, u) =>
                 /\ store' = store
                 /\ last'.invited \/ channel'[r].members = channel[r].members]_vars

C20_Witness ==
    /\ last.op = "join" /\ last.gw = "is_archived"
    /\ last.result = Result(FALSE, "retry")
    /\ last.user \notin channel[last.id].members
    /\ store[last.id].status = "open"

\* C21: every completed join and offer_help hands its caller a result with a
\* success flag and a message; none ends by raising, whatever the state of the
\* request and whichever store or gateway call failed.
C21_MemberActionsNeverRaise ==
    last.op \in {"join", "offer"} =>
        /\ last.result.success \in BOOLEAN
        /\ last.result.message \notin {"raised", "none"}

C21_Witness ==
    /\ faults
    /\ last.op = "offer" /\ last.wrote
    /\ last.result = outer_except
    /\ store[last.id].status = "in_progress"

\* C22: once offer_help has written the claim, the request is never open again
\* and never without a helper, whichever of the later side effects fails.
C22_ClaimFinal ==
    \A r \in HelpRows :
        claimed[r].written => store[r].status # "open" /\ store[r].helper_id # Null

C22_Witness ==
    \E r \in HelpRows :
        /\ claimed[r].written
        /\ last.op = "offer" /\ last.id = r /\ last.wrote /\ ~last.result.success
        /\ store[r].status = "in_progress"
        /\ store[r].helper_id = last.user

C24_EmptyInputRejected ==
    \A r \in Rows : store[r].topic # "" /\ store[r].description # ""

\* C25: _get_workspace_owner gives the id of the first member flagged owner,
\* else of the first member flagged admin, else nothing; nothing as well when
\* the answer is not ok or list_users raises.
C25_WorkspaceOwner ==
    lookup.state = "done" =>
        LET ms == lookup.response.members
            owners == {i \in DOMAIN ms : ms[i].is_owner}
            admins == {i \in DOMAIN ms : ms[i].is_admin}
            least(S) == CHOOSE i \in S : \A j \in S : i <= j
        IN  lookup.owner =
                IF lookup.response.outcome # "ok" THEN Null
                ELSE IF owners # {} THEN ms[least(owners)].id
                ELSE IF admins # {} THEN ms[least(admins)].id
                ELSE Null

C25_Witness ==
    /\ lookup.state = "done" /\ lookup.response.outcome = "ok"
    /\ LET ms == lookup.response.members
       IN  /\ Len(ms) = 2
           /\ ms[1].is_admin /\ ~ms[1].is_owner
           /\ ms[2].is_owner /\ ms[2].id # ms[1].id
           /\ lookup.owner = ms[2].id

\* C26: the invite list is the requester, followed by the owner found when
\* there is one and it is somebody else; nobody is on it twice.
C26_InviteSet ==
    lookup.state = "done" =>
        /\ Range(lookup.invited) = {lookup.requester} \cup ({lookup.owner} \ {Null})
        /\ Len(lookup.invited) = Cardinality(Range(lookup.invited))
        /\ lookup.owner \in {Null, lookup.requester} => lookup.invited = <<lookup.requester>>

C26_Witness ==
    /\ lookup.state = "done"
    /\ lookup.owner = lookup.requester
    /\ lookup.invited = <<lookup.requester>>

\* C27: whenever the close job of a request is about to be armed, is armed, has
\* fired or its handler is running, the row carries the session channel id.
C27_JobAfterChannelId ==
    \A r \in RequestIds :
        cr[r].pc = "schedule" \/ job[r] # "none" \/ exp[r].pc # "idle"
            => r \in Rows /\ store[r].session_channel_id # Null

C27_Witness ==
    \E r \in Rows :
        /\ faults
        /\ job[r] = "armed" /\ exp[r].pc = "idle"
        /\ store[r].session_channel_id = "ch"

\* C28: no request is given to add_once_job more than once, and two requests,
\* of the same table or not, never get the same job id.
C28_JobIdsUnique ==
    \A c1, c2 \in BagToSet(calls) :
        /\ CopiesIn(c1, calls) = 1
        /\ c1.job_id = c2.job_id => c1 = c2

C28_Witness ==
    \E c1, c2 \in BagToSet(calls) : c1.id = c2.id /\ c1.kind # c2.kind

\* C29: a channel is created only for a request that has none, the channel id is
\* written only to a row that has none, and once written no step changes it.
C29_ChannelIdWrittenOnce ==
    /\ [](\A r \in RequestIds :
            /\ cr[r].pc = "provision" => ~channel[r].created
            /\ cr[r].pc = "save_channel" => store[r].session_channel_id = Null)
    /\ [][\A r \in RequestIds :
             store[r] # NoRow /\ store[r].session_channel_id # Null
                 => store'[r].session_channel_id = store[r].session_channel_id]_vars

C29_Witness ==
    \E r \in Rows :
        /\ store[r].session_channel_id # Null
        /\ store[r].status = "closed"
        /\ channel[r].members # {store[r].requester_id}

\* C30: a step that is not one of create_*_request, that is a step of join, of
\* offer_help or of the close handler, changes no column of the row other than
\* status, helper_id and closed_at.
C30_Frame ==
    [][\A r \in RequestIds :
          store[r] # NoRow /\ cr'[r] = cr[r]
              => \A f \in DOMAIN store[r] \ {"status", "helper_id", "closed_at"} :
                     store'[r][f] = store[r][f]]_vars

C30_Witness ==
    \E r \in HelpRows :
        /\ store[r].status = "closed" /\ claimed[r].at_close
        /\ store[r].helper_id # Null
        /\ store[r].requester_id \in Requesters
        /\ store[r].topic = "t" /\ store[r].description = "d"
        /\ store[r].channel_id = OriginChannel

\* C31: offer_help reports success exactly when the call wrote its claim to the
\* row; a call that reports failure has written nothing.
C31_ClaimResultAgreesWithState ==
    last.op = "offer" => (last.result.success <=> last.wrote)

\* C32: a join that reports failure has not added the user to the channel.
C32_JoinResultAgreesWithMembership ==
    last.op = "join" /\ ~last.result.success => ~last.invited

\* C33: after a successful offer_help on a help request whose advertisement is
\* posted, the advertisement has been updated in place.
C33_AdvertUpdatedOnClaim ==
    last.op = "offer" /\ last.result.success /\ advert[last.id].posted
        => advert[last.id].updated

\* C34: a join on a request that has no row, or whose row has no session
\* channel id, is rejected without a gateway call and without a store write.
C34_JoinWithoutChannelRejected ==
    /\ last.op = "join"
    /\ \/ last.pre = "absent"
       \/ store[last.id] # NoRow /\ store[last.id].session_channel_id = Null
    => /\ ~last.result.success
       /\ last.gw = "none" /\ ~last.invited /\ ~last.wrote

C34_Witness ==
    /\ last.op = "join"
    /\ store[last.id] # NoRow /\ store[last.id].session_channel_id = Null
    /\ store[last.id].status = "open"
    /\ last.result = Result(FALSE, "no_channel")

\* C35: a request whose channel creation failed never has a close job and its
\* close handler never runs; a communication request in that state stays open.
C35_NoChannelNoExpiry ==
    \A r \in RequestIds :
        cr[r].created = "failed" =>
            /\ job[r] = "none"
            /\ cr[r].sched = "none"
            /\ exp[r] = [pc |-> "idle", runs |-> 0, pre |-> "none"]
            /\ store[r].kind = "communication" => store[r].status = "open"

C35_Witness ==
    \E r \in Rows :
        /\ cr[r].created = "failed" /\ cr[r].pc = "done"
        /\ store[r].kind = "communication" /\ store[r].status = "open"
        /\ last.op = "join" /\ last.id = r /\ last.result = Result(FALSE, "no_channel")

\* C36: a conversation start_match opened is on its way to a close_conversation
\* call: once no start_match for it is waiting any more, it has received the
\* call or a close job for it is pending (only close_match makes the call, and
\* only a job runs close_match).
C36_MatchEventuallyClosed ==
    \A p \in Pairs :
        match.conv[p] = "open" /\ match.inflight[p] = 0
            => match.close_called[p] \/ match.pending[p] > 0

\* C37: add_once_job is never called for a conversation whose close job is
\* still pending.
C37_NoRescheduleWhilePending ==
    \A p \in Pairs : ~match.dup[p]

====
